---- MODULE Spec2Model ----
(***************************************************************************)
(* grube.fund feed API: the HTTP handler (backend/api/internal/feeds) and  *)
(* the paginated fetch / transform of the feed generator (internal/feed).  *)
(*                                                                         *)
(* One request is served at a time by one goroutine; nothing is shared     *)
(* between requests.  The handler's run is cut at the upstream HTTP calls: *)
(*   idle --HandleGet--> fetch --FetchPage*--> fetched --Respond-->        *)
(*   responded --NextRequest--> idle                                       *)
(* Strings the code inspects (query parameters, prices) are sequences of   *)
(* one-character strings.                                                  *)
(***************************************************************************)
EXTENDS Integers, Sequences, FiniteSets, TLC

VARIABLES
    pc,             \* position of the serving goroutine
    req,            \* the incoming HTTP request (format token, query parameters)
    buildFeedCalls, \* invocations of Generator.BuildFeed for this request
    offset,         \* fetch: local offset
    hasMore,        \* fetch: local hasMore
    postings,       \* fetch: local postings accumulated so far
    requests,       \* upstream requests issued by this fetch, in order
    responses,      \* upstream answers received by this fetch, in order
    response        \* what HandleGet wrote / returned

vars == <<pc, req, buildFeedCalls, offset, hasMore, postings, requests, responses, response>>

----------------------------------------------------------------------------
(* Program constants *)

perPage == 100
feedCacheMaxAge == 60 * 60
jitterDraws == 15 * 60 + 1
feedBaseURL == "https://api.grube.fund/"

formatRSS == "rss"
formatAtom == "atom"
formatJSON == "json"

StatusOK == 200
StatusBadRequest == 400
StatusNotFound == 404
StatusUnprocessableEntity == 422
StatusInternalServerError == 500

----------------------------------------------------------------------------
(* Bounds and input sets *)

\* The upstream's maximum page count: from offset UpstreamMaxPages * perPage on
\* it no longer answers "200, more postings available".
UpstreamMaxPages == 2

Digits == {"0", "1", "2", "3", "4", "5", "6", "7", "8", "9"}

P1 == [posting_id |-> "a1", price |-> <<"1", "9", ".", "9", "9">>]
P2 == [posting_id |-> "b2", price |-> <<"5">>]
PNeg == [posting_id |-> "c3", price |-> <<"-", "5", ".", "0">>]
PBad == [posting_id |-> "d4", price |-> <<"1", "z">>]

\* Posting lists a 200 page may carry.
PageBodies == {<<>>, <<P1>>, <<P1, P2>>, <<PNeg>>, <<PBad, P2>>}
PageBodiesNarrow == {<<P1>>}

\* Incoming requests.  A query parameter that is missing reads as "".  The
\* optional outletIds parameter is split and handed on, but the generator's
\* upstream query does not carry it, so it is left out.
Formats == {formatRSS, formatAtom, formatJSON, "xml"}
BrandParams == {<<>>, <<"a">>, <<"a", ",", "b">>}
CategoryParams == {<<>>, <<"1">>}
KeywordParams == {<<>>, <<"t">>}

Requests ==
    [format : Formats, brands : BrandParams, categorieIds : CategoryParams,
     text : KeywordParams]
RequestsNarrow ==
    [format : {formatRSS, "xml"}, brands : {<<"a">>}, categorieIds : {<<"1">>},
     text : {<<>>}]

----------------------------------------------------------------------------
(* strings.Split / strings.Join with a one-character separator *)

RECURSIVE Split(_, _)
Split(s, sep) ==
    IF \E i \in 1..Len(s) : s[i] = sep
    THEN LET i == CHOOSE k \in 1..Len(s) :
                      s[k] = sep /\ \A j \in 1..(k - 1) : s[j] # sep
         IN  <<SubSeq(s, 1, i - 1)>> \o Split(SubSeq(s, i + 1, Len(s)), sep)
    ELSE <<s>>

RECURSIVE Join(_, _)
Join(elems, sep) ==
    IF Len(elems) = 0 THEN <<>>
    ELSE IF Len(elems) = 1 THEN elems[1]
    ELSE elems[1] \o <<sep>> \o Join(Tail(elems), sep)

----------------------------------------------------------------------------
(* strconv.ParseFloat on strings over digits, sign, point and other letters: *)
(* [sign] digits [ "." digits ], at least one digit.  The value is           *)
(* (-1)^neg * mant / 10^scale.                                               *)

DigitVal(c) ==
    CASE c = "0" -> 0 [] c = "1" -> 1 [] c = "2" -> 2 [] c = "3" -> 3
      [] c = "4" -> 4 [] c = "5" -> 5 [] c = "6" -> 6 [] c = "7" -> 7
      [] c = "8" -> 8 [] c = "9" -> 9

RECURSIVE Mantissa(_, _)
Mantissa(s, acc) ==
    IF Len(s) = 0 THEN acc
    ELSE IF Head(s) = "." THEN Mantissa(Tail(s), acc)
    ELSE Mantissa(Tail(s), acc * 10 + DigitVal(Head(s)))

ParseFloat(s) ==
    LET signed == Len(s) > 0 /\ s[1] \in {"+", "-"}
        body == IF signed THEN Tail(s) ELSE s
        points == {i \in 1..Len(body) : body[i] = "."}
        nDigits == Cardinality({i \in 1..Len(body) : body[i] \in Digits})
        ok == /\ \A i \in 1..Len(body) : body[i] \in Digits \cup {"."}
              /\ Cardinality(points) <= 1
              /\ nDigits >= 1
    IN  IF ok
        THEN [err |-> FALSE,
              neg |-> signed /\ s[1] = "-",
              mant |-> Mantissa(body, 0),
              scale |-> IF points = {} THEN 0
                        ELSE Len(body) - (CHOOSE i \in points : TRUE)]
        ELSE [err |-> TRUE, neg |-> FALSE, mant |-> 0, scale |-> 0]

----------------------------------------------------------------------------
(* internal/feed: posting.ToFeedItem and Generator.BuildFeed's transform *)

\* The item's Id is the posting id; its Title renders the parsed price.
ToFeedItemIgnoreErr(p) ==
    [err |-> FALSE, item |-> [Id |-> p.posting_id, price |-> ParseFloat(p.price)]]

ToFeedItem(p) ==
    LET price == ParseFloat(p.price)
    IN  IF price.err
        THEN [err |-> TRUE, item |-> [Id |-> "", price |-> price]]
        ELSE [err |-> FALSE, item |-> [Id |-> p.posting_id, price |-> price]]

\* for _, p := range postings: the first ToFeedItem error returns (nil, err).
RECURSIVE BuildItemsSkip(_, _)
BuildItemsSkip(ps, items) ==
    IF Len(ps) = 0 THEN [err |-> FALSE, items |-> items]
    ELSE LET r == ToFeedItem(Head(ps))
         IN  IF r.err THEN BuildItemsSkip(Tail(ps), items)
             ELSE BuildItemsSkip(Tail(ps), Append(items, r.item))

RECURSIVE BuildItems(_, _)
BuildItems(ps, items) ==
    IF Len(ps) = 0 THEN [err |-> FALSE, items |-> items]
    ELSE LET r == ToFeedItem(Head(ps))
         IN  IF r.err THEN [err |-> TRUE, items |-> <<>>]
             ELSE BuildItems(Tail(ps), Append(items, r.item))

\* BuildFeed after fetch returned ps without error.
BuildFeed(ps) == BuildItems(ps, <<>>)

----------------------------------------------------------------------------
(* backend/api/internal/feeds: helpers of HandleGet *)

parseRequiredBrandsUnchecked(brands) ==
    [err |-> FALSE, value |-> Split(brands, ",")]

parseRequiredBrands(brands) ==
    IF brands = <<>>
    THEN [err |-> TRUE, value |-> <<>>]
    ELSE [err |-> FALSE, value |-> Split(brands, ",")]

parseRequiredCategoryIDs(categoryIDs) ==
    IF categoryIDs = <<>>
    THEN [err |-> TRUE, value |-> <<>>]
    ELSE [err |-> FALSE, value |-> Split(categoryIDs, ",")]

ValidFormatAny(format) == TRUE

ValidFormat(format) ==
    ~(format # formatRSS /\ format # formatAtom /\ format # formatJSON)

\* The request's own URL re-based onto feedBaseURL, query kept.
buildFeedURL(r) ==
    [base |-> feedBaseURL, path |-> r.format,
     query |-> <<r.brands, r.categorieIds, r.text>>]

Intn(n) == 0..(n - 1)

\* randomMaxAge with its two rand.Intn draws made explicit.
randomMaxAgeSwapped(draw, coin) ==
    IF coin = 1 THEN draw - feedCacheMaxAge ELSE feedCacheMaxAge + draw

randomMaxAge(draw, coin) ==
    IF coin = 1 THEN feedCacheMaxAge - draw ELSE feedCacheMaxAge + draw

NoResponse ==
    [status |-> 0, message |-> "", contentType |-> "", cacheControl |-> {},
     body |-> <<>>]

\* echo.NewHTTPError(status, message): no feed body, no feed headers.
HTTPError(status, message) ==
    [status |-> status, message |-> message, contentType |-> "",
     cacheControl |-> {}, body |-> <<>>]

\* Validation in HandleGet (format, brands, categorieIds), in the code's order.
Validate(r) ==
    IF ~ValidFormat(r.format)
    THEN [err |-> TRUE, message |-> "Invalid format"]
    ELSE IF parseRequiredBrands(r.brands).err
    THEN [err |-> TRUE, message |-> "brands param is required"]
    ELSE IF parseRequiredCategoryIDs(r.categorieIds).err
    THEN [err |-> TRUE, message |-> "categorieIds param is required"]
    ELSE [err |-> FALSE, message |-> ""]

\* HandleGet from BuildFeed's return on: self link, format dispatch, headers.
\* url.Parse of the constant feedBaseURL succeeds, and the encoders (ToRss,
\* ToAtom, ToJSON) marshal structs of strings the library builds itself, so
\* their error returns are not taken.
WriteFeed(r, feed, draw, coin) ==
    LET linked == [items |-> feed.items, link |-> buildFeedURL(r)]
        contentType ==
            IF r.format = formatRSS THEN "application/xml; charset=UTF-8"
            ELSE IF r.format = formatAtom THEN "application/xml"
            ELSE IF r.format = formatJSON THEN "application/json"
            ELSE ""
    IN  IF feed.err
        THEN HTTPError(StatusInternalServerError, "")
        ELSE IF contentType = ""
        THEN HTTPError(StatusNotFound, "")
        ELSE [status |-> StatusOK, message |-> "", contentType |-> contentType,
              cacheControl |-> {randomMaxAge(draw, coin)},
              body |-> <<linked>>]

----------------------------------------------------------------------------
(* internal/feed: Generator.fetch *)

\* buildRequest: the query of one upstream call.
buildRequest(limit, off, brands, categoryIDs, keyword) ==
    [limit |-> limit, offset |-> off, brands |-> Join(brands, ","),
     categorieIds |-> Join(categoryIDs, ","), text |-> keyword]

\* offset += perPage
NextOffsetByOne(off) == off + 1

NextOffset(off) == off + perPage

\* postings = append(postings, r.Postings...)
AccumulateFront(acc, page) == page \o acc

Accumulate(acc, page) == acc \o page

\* hasMore = r.HasMore
NextHasMoreStuck(a) == TRUE

NextHasMore(a) == a.hasMore

\* One upstream answer: a transport failure (client.Do / io.ReadAll), or a
\* status with a body that json.Unmarshal accepts or rejects.
UpstreamAnswer(failed, status, wellFormed, ps, more) ==
    [failed |-> failed, status |-> status, wellFormed |-> wellFormed,
     postings |-> ps, hasMore |-> more]

Failures ==
    {UpstreamAnswer(TRUE, 0, FALSE, <<>>, FALSE),
     UpstreamAnswer(FALSE, StatusInternalServerError, FALSE, <<>>, FALSE),
     UpstreamAnswer(FALSE, StatusNotFound, FALSE, <<>>, FALSE),
     UpstreamAnswer(FALSE, StatusOK, FALSE, <<>>, FALSE)}

Unprocessable == UpstreamAnswer(FALSE, StatusUnprocessableEntity, FALSE, <<>>, FALSE)

Pages(bodies, mores) ==
    {UpstreamAnswer(FALSE, StatusOK, TRUE, b, m) : b \in bodies, m \in mores}

\* What the upstream may answer to a request at offset off.
Upstream(bodies, off) ==
    IF off >= UpstreamMaxPages * perPage
    THEN Failures \cup {Unprocessable} \cup Pages(bodies, {FALSE})
    ELSE Failures \cup {Unprocessable} \cup Pages(bodies, BOOLEAN)

\* The outcome of one loop iteration on answer a: "error" (return nil, err),
\* "end" (422: return postings, nil) or "page" (appended, loop test next).
IterationStrict(a) ==
    IF a.failed THEN "error"
    ELSE IF a.status # StatusOK THEN "error"
    ELSE IF ~a.wellFormed THEN "error"
    ELSE "page"

IterationLenient(a) ==
    IF a.failed THEN "error"
    ELSE IF a.status # StatusOK THEN "end"
    ELSE IF ~a.wellFormed THEN "error"
    ELSE "page"

Iteration(a) ==
    IF a.failed THEN "error"
    ELSE IF a.status # StatusOK
    THEN IF a.status = StatusUnprocessableEntity THEN "end" ELSE "error"
    ELSE IF ~a.wellFormed THEN "error"
    ELSE "page"

----------------------------------------------------------------------------
(* Actions *)

Init ==
    /\ pc = "idle"
    /\ req = [format |-> "", brands |-> <<>>, categorieIds |-> <<>>, text |-> <<>>]
    /\ buildFeedCalls = 0
    /\ offset = 0
    /\ hasMore = FALSE
    /\ postings = <<>>
    /\ requests = <<>>
    /\ responses = <<>>
    /\ response = NoResponse

\* HandleGet up to the call of BuildFeed, which enters fetch.
HandleGet(reqs) ==
    /\ pc = "idle"
    /\ \E r \in reqs :
         LET v == Validate(r)
         IN  /\ req' = r
             /\ IF v.err
                THEN /\ response' = HTTPError(StatusBadRequest, v.message)
                     /\ pc' = "responded"
                     /\ UNCHANGED <<buildFeedCalls, offset, hasMore>>
                ELSE /\ buildFeedCalls' = buildFeedCalls + 1
                     /\ offset' = 0
                     /\ hasMore' = TRUE
                     /\ pc' = "fetch"
                     /\ UNCHANGED response
    /\ UNCHANGED <<postings, requests, responses>>

\* One iteration of fetch's loop: build the request, call the upstream, handle
\* the answer.  An error returns through BuildFeed to HandleGet's 500.
FetchPage(bodies) ==
    /\ pc = "fetch"
    /\ hasMore
    /\ \E a \in Upstream(bodies, offset) :
         LET out == Iteration(a)
         IN  /\ requests' = Append(requests,
                    buildRequest(perPage, offset,
                                 parseRequiredBrands(req.brands).value,
                                 parseRequiredCategoryIDs(req.categorieIds).value,
                                 req.text))
             /\ responses' = Append(responses, a)
             /\ IF out = "error"
                THEN /\ response' = HTTPError(StatusInternalServerError, "")
                     /\ pc' = "responded"
                     /\ UNCHANGED <<postings, hasMore, offset>>
                ELSE IF out = "end"
                THEN /\ pc' = "fetched"
                     /\ UNCHANGED <<postings, hasMore, offset, response>>
                ELSE /\ postings' = Accumulate(postings, a.postings)
                     /\ hasMore' = NextHasMore(a)
                     /\ offset' = NextOffset(offset)
                     /\ pc' = IF NextHasMore(a) THEN "fetch" ELSE "fetched"
                     /\ UNCHANGED response
    /\ UNCHANGED <<req, buildFeedCalls>>

\* fetch returned postings: BuildFeed's transform, then the rest of HandleGet.
Respond(draws) ==
    /\ pc = "fetched"
    /\ \E draw \in draws, coin \in Intn(2) :
         response' = WriteFeed(req, BuildFeed(postings), draw, coin)
    /\ pc' = "responded"
    /\ UNCHANGED <<req, buildFeedCalls, offset, hasMore, postings, requests, responses>>

\* The request is over; the next one starts from nothing.
NextRequest ==
    /\ pc = "responded"
    /\ pc' = "idle"
    /\ req' = [format |-> "", brands |-> <<>>, categorieIds |-> <<>>, text |-> <<>>]
    /\ buildFeedCalls' = 0
    /\ offset' = 0
    /\ hasMore' = FALSE
    /\ postings' = <<>>
    /\ requests' = <<>>
    /\ responses' = <<>>
    /\ response' = NoResponse

\* The handler with the jitter drawn at the ends of rand.Intn's range.
BoundaryDraws == {0, jitterDraws - 1}

Next ==
    \/ HandleGet(Requests)
    \/ FetchPage(PageBodies)
    \/ Respond(BoundaryDraws)
    \/ NextRequest

Spec == Init /\ [][Next]_vars

\* The upstream client has a timeout, so every call returns and the goroutine
\* goes on to handle the answer.
FairSpec == Spec /\ WF_vars(FetchPage(PageBodies))

\* The handler with every value of the jitter draw, on a narrow set of requests
\* and page bodies.
NextMaxAge ==
    \/ HandleGet(RequestsNarrow)
    \/ FetchPage(PageBodiesNarrow)
    \/ Respond(Intn(jitterDraws))
    \/ NextRequest

SpecMaxAge == Init /\ [][NextMaxAge]_vars

----------------------------------------------------------------------------
(* Vocabulary of the properties, read off the logs and the response only *)

Last(seq) == seq[Len(seq)]
Front(seq) == SubSeq(seq, 1, Len(seq) - 1)

\* A 200 answer whose body decodes.
IsPage(a) == ~a.failed /\ a.status = 200 /\ a.wellFormed
\* A 422 answer.
IsUnprocessable(a) == ~a.failed /\ a.status = 422
\* Any other answer: transport failure, other status, malformed JSON.
IsFailure(a) == ~IsPage(a) /\ ~IsUnprocessable(a)

\* The postings of the 200 pages among rs, in the order received.
RECURSIVE ConcatPages(_)
ConcatPages(rs) ==
    IF Len(rs) = 0 THEN <<>>
    ELSE (IF IsPage(Head(rs)) THEN Head(rs).postings ELSE <<>>) \o ConcatPages(Tail(rs))

\* Price strings that are a decimal number: optional sign, digits, at most one point.
WellFormedPrice(s) ==
    LET body == IF Len(s) > 0 /\ s[1] \in {"+", "-"} THEN Tail(s) ELSE s
    IN  /\ \E i \in 1..Len(body) : body[i] \in Digits
        /\ \A i \in 1..Len(body) : body[i] \in Digits \cup {"."}
        /\ Cardinality({i \in 1..Len(body) : body[i] = "."}) <= 1

NegativePrice(s) ==
    /\ WellFormedPrice(s)
    /\ s[1] = "-"
    /\ \E i \in 1..Len(s) : s[i] \in Digits \ {"0"}

InvalidRequest(r) ==
    \/ r.format \notin {"rss", "atom", "json"}
    \/ r.brands = <<>>
    \/ r.categorieIds = <<>>

Served == IF response.body = <<>> THEN <<>> ELSE response.body[1].items

----------------------------------------------------------------------------
(* C1: with an upstream of finite maximum page count, fetch issues at most  *)
(* UpstreamMaxPages + 1 requests and then returns.                          *)
C1_FetchTerminates ==
    /\ [](Len(requests) <= UpstreamMaxPages + 1)
    /\ ((pc = "fetch") ~> (pc \in {"fetched", "responded"}))

C1_Witness ==
    /\ pc = "fetched"
    /\ Len(requests) = UpstreamMaxPages + 1
    /\ req.brands # <<>> /\ req.categorieIds # <<>>

(* C2: on success the feed's items are the postings of the 200 pages,       *)
(* concatenated in the order the pages were requested, one item per posting *)
(* with the posting's id: not re-sorted, nothing dropped or duplicated.     *)
C2_FeedIsConcatenationOfPages ==
    response.status = 200 =>
        /\ Len(response.body) = 1
        /\ Len(Served) = Len(ConcatPages(responses))
        /\ \A i \in 1..Len(Served) :
             Served[i].Id = ConcatPages(responses)[i].posting_id
        /\ \A k \in 1..Len(requests) : requests[k].offset = 100 * (k - 1)

C2_Witness ==
    /\ response.status = 200
    /\ Len(responses) = 2
    /\ Len(Served) = 3
    /\ Served[1].Id = "a1" /\ Served[2].Id = "a1" /\ Served[3].Id = "b2"

(* C3 as stated: a 422 ends fetch without error with exactly the postings   *)
(* of the earlier pages, and the handler answers 200.                       *)
C3_UnprocessableAnswers200 ==
    (responses # <<>> /\ IsUnprocessable(Last(responses))) =>
        /\ pc \in {"fetched", "responded"}
        /\ postings = ConcatPages(Front(responses))
        /\ pc = "responded" => response.status = 200

(* C3 amended: a 422 ends fetch without error with exactly the postings of  *)
(* the earlier pages; the handler then answers 200 with them when every     *)
(* accumulated price parses, and 500 when one does not.                     *)
C3_UnprocessableEndsFetch ==
    (responses # <<>> /\ IsUnprocessable(Last(responses))) =>
        /\ pc \in {"fetched", "responded"}
        /\ Len(requests) = Len(responses)
        /\ postings = ConcatPages(Front(responses))
        /\ pc = "responded" =>
             IF \A i \in 1..Len(postings) : WellFormedPrice(postings[i].price)
             THEN /\ response.status = 200
                  /\ Len(Served) = Len(postings)
                  /\ \A i \in 1..Len(Served) : Served[i].Id = postings[i].posting_id
             ELSE response.status = 500 /\ response.body = <<>>

C3_Witness ==
    /\ pc = "responded"
    /\ Len(responses) = 2
    /\ IsUnprocessable(responses[2])
    /\ response.status = 200
    /\ Len(Served) = 2

C3_WitnessFirstRequest ==
    /\ pc = "responded"
    /\ Len(responses) = 1
    /\ IsUnprocessable(responses[1])
    /\ response.status = 200
    /\ Served = <<>>

(* C4: a failure on any page, also after pages that succeeded, ends the     *)
(* request with 500 and no feed body or feed header: nothing accumulated is *)
(* served.                                                                  *)
C4_FailureDiscardsEverything ==
    (responses # <<>> /\ IsFailure(Last(responses))) =>
        /\ pc = "responded"
        /\ Len(requests) = Len(responses)
        /\ response.status = 500
        /\ response.body = <<>>
        /\ response.cacheControl = {}
        /\ response.contentType = ""

C4_Witness ==
    /\ Len(responses) = 3
    /\ IsFailure(responses[3])
    /\ Len(postings) >= 2
    /\ response.status = 500

(* C5: a request that fails validation is answered 400 and BuildFeed is     *)
(* never invoked for it, so no upstream call is made.                       *)
C5_InvalidRequestNeverBuilds ==
    (pc # "idle" /\ InvalidRequest(req)) =>
        /\ pc = "responded"
        /\ response.status = 400
        /\ response.message # ""
        /\ buildFeedCalls = 0
        /\ requests = <<>>

C5_Witness ==
    /\ pc = "responded"
    /\ req.format = "rss" /\ req.brands = <<>> /\ req.categorieIds # <<>>
    /\ response.status = 400
    /\ buildFeedCalls = 0

(* C6 as stated: the max-age of every 200 response is within [3300, 4500].  *)
C6_MaxAgeWithin3300And4500 ==
    response.status = 200 =>
        \A age \in response.cacheControl : 3300 <= age /\ age <= 4500

(* C6 amended: the max-age of every 200 response is within [2700, 4500],    *)
(* that is 3600 +/- 900.                                                    *)
C6_MaxAgeWithin2700And4500 ==
    response.status = 200 =>
        /\ Cardinality(response.cacheControl) = 1
        /\ \A age \in response.cacheControl : 2700 <= age /\ age <= 4500

C6_Witness ==
    /\ response.status = 200
    /\ response.cacheControl = {2700}

(* C7: a posting whose price does not parse, at any position of the fetched *)
(* sequence, makes the request end with 500 and no feed: the items built    *)
(* from the postings before it are discarded.                               *)
C7_UnparseablePriceAborts ==
    (pc = "responded" /\ \E i \in 1..Len(postings) : ~WellFormedPrice(postings[i].price)) =>
        /\ response.status = 500
        /\ response.body = <<>>
        /\ response.cacheControl = {}

C7_Witness ==
    /\ pc = "responded"
    /\ Len(responses) = 2
    /\ IsPage(responses[2])
    /\ Len(postings) = 3
    /\ WellFormedPrice(postings[1].price)
    /\ ~WellFormedPrice(postings[2].price)
    /\ response.status = 500

(* C8 as stated: every item of a returned feed has a non-negative price; a  *)
(* well-formed negative price makes the request fail.                       *)
C8_ServedPricesNonNegative ==
    response.status = 200 =>
        \A i \in 1..Len(ConcatPages(responses)) :
            /\ WellFormedPrice(ConcatPages(responses)[i].price)
            /\ ~NegativePrice(ConcatPages(responses)[i].price)

(* C8 amended: every item of a returned feed has a price that parses as a   *)
(* decimal number; its sign is not checked, and a well-formed negative      *)
(* price is rendered with its sign.                                         *)
C8_ServedPricesParse ==
    response.status = 200 =>
        /\ Len(Served) = Len(ConcatPages(responses))
        /\ \A i \in 1..Len(Served) :
             /\ WellFormedPrice(ConcatPages(responses)[i].price)
             /\ ~Served[i].price.err
             /\ Served[i].price.neg = (ConcatPages(responses)[i].price[1] = "-")

C8_Witness ==
    /\ response.status = 200
    /\ \E i \in 1..Len(Served) :
         /\ NegativePrice(ConcatPages(responses)[i].price)
         /\ Served[i].price.neg
         /\ Served[i].price.mant = 50 /\ Served[i].price.scale = 1

(* C9: the k-th upstream request of a fetch carries limit 100 and offset    *)
(* 100 * (k - 1); every answer but the last is a 200 page announcing more   *)
(* postings, so no offset is asked twice and nothing is requested after a   *)
(* final page, a 422 or a failure.                                          *)
C9_RequestSequence ==
    /\ \A k \in 1..Len(requests) :
         requests[k].limit = 100 /\ requests[k].offset = 100 * (k - 1)
    /\ Len(responses) = Len(requests)
    /\ \A k \in 1..(Len(responses) - 1) :
         IsPage(responses[k]) /\ responses[k].hasMore
    /\ (responses # <<>> /\ ~(IsPage(Last(responses)) /\ Last(responses).hasMore)) =>
         pc # "fetch"
    /\ pc = "fetch" => offset = 100 * Len(requests)

C9_Witness ==
    /\ Len(requests) = 3
    /\ requests[3].offset = 200
    /\ requests[3].brands = <<"a", ",", "b">>
    /\ pc # "fetch"

(* C10: HandleGet ends with 400, 500 or 200 and never with the 404 of the   *)
(* format dispatch; a 200 follows exactly one successful BuildFeed and only *)
(* then carries the self link, Content-Type and Cache-Control; a 400 or 500 *)
(* carries no feed body and no Cache-Control.                               *)
C10_HandlerOutcomes ==
    /\ pc = "responded" <=> response.status # 0
    /\ response.status \in {0, 400, 500, 200}
    /\ buildFeedCalls <= 1
    /\ response.status = 200 =>
         /\ buildFeedCalls = 1
         /\ responses # <<>> /\ ~IsFailure(Last(responses))
         /\ \A i \in 1..Len(postings) : WellFormedPrice(postings[i].price)
         /\ Len(response.body) = 1
         /\ response.body[1].link.base = "https://api.grube.fund/"
         /\ response.body[1].link.path = req.format
         /\ response.body[1].link.query = <<req.brands, req.categorieIds, req.text>>
         /\ response.contentType # ""
         /\ Cardinality(response.cacheControl) = 1
    /\ response.status # 200 =>
         /\ response.body = <<>>
         /\ response.cacheControl = {}
         /\ response.contentType = ""

C10_Witness ==
    /\ pc = "responded"
    /\ response.status = 200
    /\ req.format = "atom"
    /\ response.contentType = "application/xml"
    /\ buildFeedCalls = 1

====
